---- MODULE Spec2Model ----
(***************************************************************************)
(* A model of dubpixel/coachella_set_schedule:                             *)
(*   - app/websocket.py  ConnectionManager (the connection hub),           *)
(*   - app/slip.py       calculate_slip (the slip calculator),             *)
(*   - app/sheets.py     get_schedule (the spreadsheet-backed store).      *)
(*                                                                         *)
(* The hub runs on one asyncio event loop: a coroutine runs without        *)
(* interruption from one await to the next, so every action below is the   *)
(* code between two awaits.  active_connections is a Python dict; it is    *)
(* modelled by its entry table (insertion order, deleted entries leave a   *)
(* hole, a full table is compacted on insert), because _send_to_all        *)
(* iterates the dict across awaits and the dict iterator's behaviour under *)
(* mutation is what the table and the iterator's counters make it.         *)
(***************************************************************************)
EXTENDS Integers, Sequences, FiniteSets, TLC

VARIABLES
    \* websocket.py: the ConnectionManager
    accepted,            \* the websockets whose accept() handshake is done
    entries,             \* active_connections: the dict's entry table
    current_brightness,  \* ConnectionManager.current_brightness
    task,                \* the broadcast coroutine: its call, its position, what it sent
    last_disconnect,     \* how the latest disconnect(websocket) call ended
    lifecycle,           \* per websocket: "new", accepted as "viewer" or "editor",
                         \* or "closed" by a disconnect call or a send that raised
    \* slip.py: one run of calculate_slip
    slip_pc,             \* "idle", "loop" (inside "for act in acts") or "returned"
    current_time,        \* the current_time argument, resolved
    slip,                \* the local variable slip
    n_acts,              \* how many acts the loop has taken
    last_data,           \* the latest act taken that has actual_start or actual_end
    slip_before,         \* slip before that act was taken
    any_start,           \* whether an act taken has actual_start
    twin,                \* two runs of calculate_slip on the same acts
    \* sheets.py: the worksheet and what get_schedule returned
    sheet,               \* sheet.get_all_values(): rows of cell texts
    schedule,            \* the latest result of get_schedule()
    last_update,         \* the latest update_... / clear_... call and how it ended
    \* slip.py: the formatters
    fmt                  \* the latest format_duration / format_variance call

hubVars == <<accepted, entries, current_brightness, task, last_disconnect, lifecycle>>

slipVars ==
    <<slip_pc, current_time, slip, n_acts, last_data, slip_before, any_start, twin>>

sheetVars == <<sheet, schedule, last_update>>

fmtVars == <<fmt>>

vars == <<hubVars, slipVars, sheetVars, fmtVars>>

----------------------------------------------------------------------------
(* Bounds of the hub model *)

\* Entries the dict's table holds before an insert compacts it.
MaxEntries == 2

Conns == {"c1", "c2", "c3"}

Tasks == {"t1"}

Messages == {"", "M"}

ViewerHtmls == {"", "V"}

EditorHtmls == {"", "E"}

BrightnessValues == {0, 7}

----------------------------------------------------------------------------
(* The dict active_connections: websocket -> is_editor *)

\* A deleted entry of the table.
Hole == [conn |-> "-", is_editor |-> FALSE]

Entry(c, e) == [conn |-> c, is_editor |-> e]

RECURSIVE Compact(_)
Compact(ent) ==
    IF ent = <<>> THEN <<>>
    ELSE IF Head(ent) = Hole THEN Compact(Tail(ent))
         ELSE <<Head(ent)>> \o Compact(Tail(ent))

\* The keys of the dict.
Keys(ent) == {ent[i].conn : i \in {j \in 1..Len(ent) : ent[j] # Hole}}

\* len(dict): ma_used.
Used(ent) == Cardinality({j \in 1..Len(ent) : ent[j] # Hole})

\* dict[c]: the is_editor flag stored for key c.
Lookup(ent, c) == ent[CHOOSE i \in 1..Len(ent) : ent[i].conn = c].is_editor

\* dict[c] = e: an existing key keeps its place; a new key is appended, after
\* the table is compacted when it is full.
DictSet(ent, c, e) ==
    IF c \in Keys(ent)
    THEN [i \in 1..Len(ent) |-> IF ent[i].conn = c THEN Entry(c, e) ELSE ent[i]]
    ELSE IF Len(ent) >= MaxEntries
         THEN Append(Compact(ent), Entry(c, e))
         ELSE Append(ent, Entry(c, e))

\* dict.pop(c, None): the entry becomes a hole; nothing happens for a missing key.
DictPop(ent, c) ==
    [i \in 1..Len(ent) |-> IF ent[i].conn = c THEN Hole ELSE ent[i]]

\* Whether "del dict[c]" raises: it does for a missing key.
DictDelRaises(ent, c) == c \notin Keys(ent)

\* Whether dict.pop(c, None) raises: never, the default is returned for a
\* missing key.
DictPopRaises(ent, c) == FALSE

----------------------------------------------------------------------------
(* The dict iterator that "for conn, is_editor in active_connections.items()"
   holds across the awaits of the loop *)

\* iter(dict.items()): nothing consumed, the size and the count to yield fixed.
DictIter(ent) == [pos |-> 0, di_used |-> Used(ent), len |-> Used(ent)]

\* next(iterator): RuntimeError when the dict's size is no longer the size the
\* iterator started with, or when an entry is found after the count to yield
\* is used up; StopIteration at the end of the table; else the next entry
\* that is not a hole.
DictIterNext(ent, it) ==
    LET rest == {i \in (it.pos + 1)..Len(ent) : ent[i] # Hole}
        i == CHOOSE j \in rest : \A k \in rest : j <= k
    IN  IF it.di_used # Used(ent) THEN [status |-> "RuntimeError"]
        ELSE IF rest = {} THEN [status |-> "StopIteration"]
        ELSE IF it.len = 0 THEN [status |-> "RuntimeError"]
        ELSE [status |-> "item", pos |-> i, len |-> it.len - 1,
              conn |-> ent[i].conn, is_editor |-> ent[i].is_editor]

----------------------------------------------------------------------------
(* Messages *)

\* json.dumps({"type": "brightness", "value": value})
json_dumps(obj) ==
    "{\"type\": \"" \o obj.type \o "\", \"value\": " \o ToString(obj.value) \o "}"

BrightnessEvent(value) == [type |-> "brightness", value |-> value]

\* The payload _send_to_all's get_message selects for a connection: the
\* lambdas of broadcast, broadcast_schedule and broadcast_brightness.
get_message(tk, is_editor) ==
    CASE tk.op = "broadcast" -> tk.message
      [] tk.op = "broadcast_schedule" ->
            IF is_editor THEN tk.editor_html ELSE tk.viewer_html
      [] tk.op = "broadcast_brightness" -> json_dumps(BrightnessEvent(tk.value))

\* "if message:": the empty string is falsy.
\* A loop that sends whatever payload is selected.
AnyPayload(message) == TRUE

Truthy(message) == message # ""

----------------------------------------------------------------------------
(* _send_to_all *)

IdleTask ==
    [pc |-> "idle", op |-> "none", message |-> "", viewer_html |-> "",
     editor_html |-> "", value |-> 0, pos |-> 0, di_used |-> 0, len |-> 0,
     conn |-> "-", is_editor |-> FALSE, text |-> "", disconnected |-> <<>>,
     sent |-> [c \in Conns |-> <<>>], targets |-> {}, mutated |-> FALSE]

\* The entry of a call: disconnected = [] and the iterator of the for loop.
NewCall(ent, op, message, viewer_html, editor_html, value) ==
    [IdleTask EXCEPT !.pc = "running", !.op = op, !.message = message,
                     !.viewer_html = viewer_html, !.editor_html = editor_html,
                     !.value = value, !.targets = Keys(ent),
                     !.pos = DictIter(ent).pos,
                     !.di_used = DictIter(ent).di_used,
                     !.len = DictIter(ent).len]

\* The loop from the top of an iteration to its next await (pc "sending":
\* suspended in conn.send_text), to its end (pc "looped") or to the
\* RuntimeError the iterator raises, which nothing catches (pc "raised").
\* The iterator and the loop variables are gone once the loop is left.
Left(tk, pc) ==
    [tk EXCEPT !.pc = pc, !.pos = 0, !.len = 0, !.di_used = 0,
               !.conn = "-", !.is_editor = FALSE, !.text = ""]

RECURSIVE RunLoop(_, _)
RunLoop(tk, ent) ==
    LET r == DictIterNext(ent, [pos |-> tk.pos, di_used |-> tk.di_used, len |-> tk.len])
    IN  CASE r.status = "RuntimeError" -> Left(tk, "raised")
          [] r.status = "StopIteration" -> Left(tk, "looped")
          [] r.status = "item" ->
                LET on == [tk EXCEPT !.pos = r.pos, !.len = r.len]
                    m == get_message(tk, r.is_editor)
                IN  IF Truthy(m)
                    THEN [on EXCEPT !.pc = "sending", !.conn = r.conn,
                                    !.is_editor = r.is_editor, !.text = m]
                    ELSE RunLoop(on, ent)

\* "for conn in disconnected: self.disconnect(conn)"
RECURSIVE Cleanup(_, _)
Cleanup(ent, disconnected) ==
    IF disconnected = <<>> THEN ent
    ELSE Cleanup(DictPop(ent, Head(disconnected)), Tail(disconnected))

\* What "except Exception: disconnected.append(conn)" leaves in the list.
RecordFailure(disconnected, conn) == Append(disconnected, conn)

\* A call that removes the connections noted so far each time it runs on.
RunEager(tk, ent) ==
    LET after == RunLoop(tk, ent)
    IN  [tk |-> IF after.pc = "looped" THEN [after EXCEPT !.pc = "returned"]
                ELSE after,
         ent |-> Cleanup(ent, after.disconnected)]

\* A call run from tk to its next await or to its end: the task record and
\* the dict it leaves.  The removals follow the loop with no await between.
Run(tk, ent) ==
    LET after == RunLoop(tk, ent)
    IN  IF after.pc = "looped"
        THEN [tk |-> [after EXCEPT !.pc = "returned"],
              ent |-> Cleanup(ent, after.disconnected)]
        ELSE [tk |-> after, ent |-> ent]

\* The other broadcast calls suspended in a send see the dict change under
\* their iterator.
Observe(tks, acting, ent, ent2) ==
    [u \in Tasks |->
        IF u # acting /\ tks[u].pc = "sending" /\ ent2 # ent
        THEN [tks[u] EXCEPT !.mutated = TRUE]
        ELSE tks[u]]

\* A call has ended and its caller has not yet taken the outcome.
Ended(tk) == tk.pc \in {"returned", "raised"}

NoneEnded == \A u \in Tasks : ~Ended(task[u])

CanCall(t) == NoneEnded /\ task[t].pc = "idle"

\* What a send attempt adds to the record of the call.
Sent(tk, ok) ==
    [tk.sent EXCEPT ![tk.conn] = Append(@, [text |-> tk.text, ok |-> ok])]

Start(t, call) ==
    LET r == Run(call, entries)
    IN  /\ entries' = r.ent
        /\ task' = Observe([task EXCEPT ![t] = r.tk], t, entries, r.ent)

\* broadcast(message)
Broadcast(t, message) ==
    /\ CanCall(t)
    /\ Start(t, NewCall(entries, "broadcast", message, "", "", 0))
    /\ UNCHANGED <<accepted, current_brightness, last_disconnect, lifecycle,
                   slipVars, sheetVars, fmtVars>>

\* broadcast_schedule(viewer_html, editor_html)
BroadcastSchedule(t, viewer_html, editor_html) ==
    /\ CanCall(t)
    /\ Start(t, NewCall(entries, "broadcast_schedule", "", viewer_html, editor_html, 0))
    /\ UNCHANGED <<accepted, current_brightness, last_disconnect, lifecycle,
                   slipVars, sheetVars, fmtVars>>

\* broadcast_brightness(value)
BroadcastBrightness(t, value) ==
    /\ CanCall(t)
    /\ current_brightness' = value
    /\ Start(t, NewCall(entries, "broadcast_brightness", "", "", "", value))
    /\ UNCHANGED <<accepted, last_disconnect, lifecycle, slipVars, sheetVars, fmtVars>>

\* conn.send_text(message) completes: the loop goes on.
SendOk(t) ==
    /\ NoneEnded
    /\ task[t].pc = "sending"
    /\ Start(t, [task[t] EXCEPT !.sent = Sent(task[t], TRUE)])
    /\ UNCHANGED <<accepted, current_brightness, last_disconnect, lifecycle,
                   slipVars, sheetVars, fmtVars>>

\* conn.send_text(message) raises: the connection is noted and the loop goes on.
SendFail(t) ==
    /\ NoneEnded
    /\ task[t].pc = "sending"
    /\ Start(t, [task[t] EXCEPT !.sent = Sent(task[t], FALSE),
                   !.disconnected = RecordFailure(task[t].disconnected, task[t].conn)])
    /\ lifecycle' = [lifecycle EXCEPT ![task[t].conn] = "closed"]
    /\ UNCHANGED <<accepted, current_brightness, last_disconnect,
                   slipVars, sheetVars, fmtVars>>

\* The caller of the broadcast takes its outcome: the await of the call
\* returns or raises, and the task is free for the next call.
Outcome(t) ==
    /\ Ended(task[t])
    /\ task' = [task EXCEPT ![t] = IdleTask]
    /\ UNCHANGED <<accepted, entries, current_brightness, last_disconnect, lifecycle,
                   slipVars, sheetVars, fmtVars>>

----------------------------------------------------------------------------
(* connect and disconnect *)

\* connect(websocket, is_editor): accept() succeeds and the connection is
\* registered, or accept() raises and nothing is.  The handshake of a
\* websocket is done once: accept() on an accepted websocket raises.
Connect(c, is_editor) ==
    /\ NoneEnded
    /\ \/ /\ c \notin accepted
          /\ accepted' = accepted \cup {c}
          /\ entries' = DictSet(entries, c, is_editor)
          /\ task' = Observe(task, "-", entries, entries')
          /\ lifecycle' = [lifecycle EXCEPT ![c] = IF is_editor THEN "editor" ELSE "viewer"]
          /\ UNCHANGED <<current_brightness, last_disconnect, slipVars, sheetVars, fmtVars>>
       \/ UNCHANGED vars

\* disconnect(websocket)
Disconnect(c) ==
    /\ NoneEnded
    /\ entries' = IF DictPopRaises(entries, c) THEN entries ELSE DictPop(entries, c)
    /\ last_disconnect' = IF DictPopRaises(entries, c) THEN "KeyError"
                          ELSE IF c \in Keys(entries) THEN "removed" ELSE "absent"
    /\ task' = Observe(task, "-", entries, entries')
    /\ lifecycle' = IF c \in accepted THEN [lifecycle EXCEPT ![c] = "closed"]
                    ELSE lifecycle
    /\ UNCHANGED <<accepted, current_brightness, slipVars, sheetVars, fmtVars>>

----------------------------------------------------------------------------
(* slip.py: calculate_slip *)

\* Acts one run of calculate_slip takes.
MaxActs == 3

Day == 24 * 3600

\* Times of day, in seconds since midnight: 00:00, 00:05, 23:50, 23:55.
Times == {0, 300, 85800, 86100}

\* An optional time that is absent.
None == -1

Present(t) == t # None

\* The acts given to calculate_slip: the fields of app.models.Act it reads.
Acts ==
    [scheduled_start : Times, scheduled_end : Times,
     actual_start : Times \cup {None}, actual_end : Times \cup {None}]

\* Act.scheduled_duration: scheduled_end - scheduled_start in seconds, taken
\* as a non-negative duration.
scheduled_duration(act) ==
    IF act.scheduled_end >= act.scheduled_start
    THEN act.scheduled_end - act.scheduled_start
    ELSE act.scheduled_end - act.scheduled_start + Day

\* Act.end_variance: actual_end - scheduled_end in seconds, signed; <<>> is
\* Python's None.
end_variance(act) ==
    IF Present(act.actual_end) THEN <<act.actual_end - act.scheduled_end>> ELSE <<>>

\* "x or 0" for an optional integer x.
OrZero(x) == IF x = <<>> THEN 0 ELSE x[1]

\* max(0, x)
Max0(x) == IF x > 0 THEN x ELSE 0

\* datetime.combine(datetime.today(), t), in seconds; today is the day the
\* clock shows when the call is made.
time_to_datetime(t, today) == today * Day + t

\* The loop body with the raw variance or projected slip assigned, not
\* max(0, ...).
SlipNoClamp(slip_in, act, days) ==
    IF Present(act.actual_end)
    THEN OrZero(end_variance(act))
    ELSE IF Present(act.actual_start) /\ ~Present(act.actual_end)
    THEN time_to_datetime(act.actual_start, 0) + scheduled_duration(act)
            - time_to_datetime(act.scheduled_end, days)
    ELSE slip_in

\* The loop body adding each act's contribution to slip.
SlipAccumulate(slip_in, act, days) ==
    IF Present(act.actual_end) \/ Present(act.actual_start)
    THEN slip_in + Max0(SlipNoClamp(slip_in, act, days))
    ELSE slip_in

\* The loop body counting the whole slot of an act that has not started.
SlipUnstarted(slip_in, act, days) ==
    IF Present(act.actual_end) \/ Present(act.actual_start)
    THEN Max0(SlipNoClamp(slip_in, act, days))
    ELSE Max0(act.scheduled_end - act.scheduled_start)

\* The loop body leaving slip alone for an act that ended early.
SlipKeepOnEarly(slip_in, act, days) ==
    IF Present(act.actual_end) /\ OrZero(end_variance(act)) < 0
    THEN slip_in
    ELSE Max0(SlipNoClamp(slip_in, act, days))

\* The body of "for act in acts": the value of slip it leaves.  days is the
\* number of days the clock moved on between the two time_to_datetime calls
\* of the in-progress branch.
SlipBody(slip_in, act, days) ==
    IF Present(act.actual_end)
    THEN LET variance == OrZero(end_variance(act))
         IN  Max0(variance)
    ELSE IF Present(act.actual_start) /\ ~Present(act.actual_end)
    THEN LET actual_start_dt == time_to_datetime(act.actual_start, 0)
             projected_end_dt == actual_start_dt + scheduled_duration(act)
             scheduled_end_dt == time_to_datetime(act.scheduled_end, days)
             projected_slip == projected_end_dt - scheduled_end_dt
         IN  Max0(projected_slip)
    ELSE slip_in

HasData(act) == Present(act.actual_start) \/ Present(act.actual_end)

\* The acts of the in-progress branch, the one that reads the clock.
InProgress(act) == Present(act.actual_start) /\ ~Present(act.actual_end)

\* calculate_slip(acts, current_time) is called: current_time None becomes
\* datetime.now().time(); slip = 0.
SlipCall(given, now) ==
    /\ slip_pc \in {"idle", "returned"}
    /\ slip_pc' = "loop"
    /\ current_time' = IF given = None THEN now ELSE given
    /\ slip' = 0
    /\ n_acts' = 0
    /\ last_data' = <<>>
    /\ slip_before' = 0
    /\ any_start' = FALSE
    /\ UNCHANGED <<twin, hubVars, sheetVars, fmtVars>>

\* One pass of "for act in acts".
SlipTake(act, days) ==
    /\ slip_pc = "loop"
    /\ n_acts < MaxActs
    /\ days # 0 => InProgress(act)
    /\ slip' = SlipBody(slip, act, days)
    /\ n_acts' = n_acts + 1
    /\ last_data' = IF HasData(act) THEN <<[act |-> act, days |-> days]>>
                    ELSE last_data
    /\ slip_before' = IF HasData(act) THEN slip ELSE slip_before
    /\ any_start' = (any_start \/ Present(act.actual_start))
    /\ UNCHANGED <<slip_pc, current_time, twin, hubVars, sheetVars, fmtVars>>

\* "return slip"
SlipReturn ==
    /\ slip_pc = "loop"
    /\ slip_pc' = "returned"
    /\ UNCHANGED <<current_time, slip, n_acts, last_data, slip_before, any_start,
                   twin, hubVars, sheetVars, fmtVars>>

\* "if current_time is None: current_time = datetime.now().time()"
ResolveTime(given, now) == IF given = None THEN now ELSE given

\* The current_time arguments and the clock readings of two calls.
GivenTimes == {None, 0, 85800}

NowTimes == {300, 86100}

\* calculate_slip is called twice on the same acts, each call with its own
\* current_time and at its own moment.
TwinCall(given1, given2, now1, now2) ==
    /\ twin.pc \in {"idle", "returned"}
    /\ twin' = [pc |-> "loop",
                current_time |-> <<ResolveTime(given1, now1), ResolveTime(given2, now2)>>,
                slip |-> <<0, 0>>, n_acts |-> 0, no_data_changed |-> FALSE]
    /\ UNCHANGED <<slip_pc, current_time, slip, n_acts, last_data, slip_before,
                   any_start, hubVars, sheetVars, fmtVars>>

\* Both calls take the next act of the sequence; the date may change between
\* the two time_to_datetime calls of either.
TwinTake(act, days1, days2) ==
    /\ twin.pc = "loop"
    /\ twin.n_acts < MaxActs
    /\ (days1 # 0 \/ days2 # 0) => InProgress(act)
    /\ LET after == <<SlipBody(twin.slip[1], act, days1),
                      SlipBody(twin.slip[2], act, days2)>>
       IN  twin' = [twin EXCEPT !.slip = after,
                                !.n_acts = @ + 1,
                                !.no_data_changed =
                                    @ \/ (~HasData(act) /\ after # twin.slip)]
    /\ UNCHANGED <<slip_pc, current_time, slip, n_acts, last_data, slip_before,
                   any_start, hubVars, sheetVars, fmtVars>>

\* Both calls return.
TwinReturn ==
    /\ twin.pc = "loop"
    /\ twin' = [twin EXCEPT !.pc = "returned"]
    /\ UNCHANGED <<slip_pc, current_time, slip, n_acts, last_data, slip_before,
                   any_start, hubVars, sheetVars, fmtVars>>

----------------------------------------------------------------------------
(* slip.py: format_duration and format_variance.  A string is the sequence of
   its characters. *)

\* The durations the formatters are called with lie in -MaxSeconds..MaxSeconds
\* or are one of a few longer ones, or their negatives.
MaxSeconds == 130

LongSeconds == {3599, 3600, 3660, 3725, 7325, 36000, 86399, 90061}

Seconds ==
    (-MaxSeconds..MaxSeconds) \cup LongSeconds \cup {-x : x \in LongSeconds}

DecimalChar(d) ==
    CASE d = 0 -> "0" [] d = 1 -> "1" [] d = 2 -> "2" [] d = 3 -> "3"
      [] d = 4 -> "4" [] d = 5 -> "5" [] d = 6 -> "6" [] d = 7 -> "7"
      [] d = 8 -> "8" [] d = 9 -> "9"

\* f"{n}" for an integer n >= 0: its decimal digits.
RECURSIVE Str(_)
Str(n) ==
    IF n < 10 THEN <<DecimalChar(n)>>
    ELSE Str(n \div 10) \o <<DecimalChar(n % 10)>>

\* abs(seconds)
abs(seconds) == IF seconds < 0 THEN -seconds ELSE seconds

\* The if / elif / else of format_duration with every unit shown.
RenderAllUnits(hours, minutes, secs) ==
    Str(hours) \o <<"h", " ">> \o Str(minutes) \o <<"m", " ">> \o Str(secs) \o <<"s">>

\* The if / elif / else of format_duration: the largest unit decides.
Render(hours, minutes, secs) ==
    IF hours > 0 THEN Str(hours) \o <<"h", " ">> \o Str(minutes) \o <<"m">>
    ELSE IF minutes > 0 THEN Str(minutes) \o <<"m">>
    ELSE Str(secs) \o <<"s">>

\* format_duration(seconds)
RECURSIVE format_duration(_)
format_duration(seconds) ==
    IF seconds < 0 THEN <<"-">> \o format_duration(abs(seconds))
    ELSE LET hours == seconds \div 3600
             remainder == seconds % 3600
             minutes == remainder \div 60
             secs == remainder % 60
         IN  Render(hours, minutes, secs)

\* How many times format_duration(seconds) calls itself.
RECURSIVE Recursions(_)
Recursions(seconds) ==
    IF seconds < 0 THEN 1 + Recursions(abs(seconds)) ELSE 0

\* format_variance with no sign in front of a positive variance.
FormatVarianceUnsigned(seconds) ==
    IF seconds = <<>> THEN <<>>
    ELSE IF seconds[1] = 0 THEN <<"o", "n", " ", "t", "i", "m", "e">>
    ELSE format_duration(abs(seconds[1]))

\* format_variance(seconds): seconds is <<>> for None, <<s>> for the integer s.
format_variance(seconds) ==
    IF seconds = <<>> THEN <<>>
    ELSE IF seconds[1] = 0 THEN <<"o", "n", " ", "t", "i", "m", "e">>
    ELSE IF seconds[1] > 0 THEN <<"+">> \o format_duration(seconds[1])
    ELSE format_duration(seconds[1])

\* format_duration(seconds) is called.
FormatDuration(seconds) ==
    /\ fmt' = [op |-> "format_duration", seconds |-> <<seconds>>,
               text |-> format_duration(seconds),
               recursions |-> Recursions(seconds)]
    /\ UNCHANGED <<hubVars, slipVars, sheetVars>>

\* format_variance(seconds) is called.
FormatVariance(seconds) ==
    /\ fmt' = [op |-> "format_variance", seconds |-> seconds,
               text |-> format_variance(seconds),
               recursions |-> IF seconds = <<>> \/ seconds[1] = 0 THEN 0
                              ELSE Recursions(seconds[1])]
    /\ UNCHANGED <<hubVars, slipVars, sheetVars>>

----------------------------------------------------------------------------
(* sheets.py: the worksheet and get_schedule.  A cell's text is the sequence
   of its characters. *)

\* Data rows the worksheet holds below the header.
MaxRows == 2

COL_ARTIST_NAME == 2

COL_SCHEDULED_START == 4

COL_SCHEDULED_END == 5

COL_ACTUAL_START == 6

COL_ACTUAL_END == 7

HEADER_ROW == 5

Digits == {"0", "1", "2", "3", "4", "5", "6", "7", "8", "9"}

DigitValue(ch) ==
    CASE ch = "0" -> 0 [] ch = "1" -> 1 [] ch = "2" -> 2 [] ch = "3" -> 3
      [] ch = "4" -> 4 [] ch = "5" -> 5 [] ch = "6" -> 6 [] ch = "7" -> 7
      [] ch = "8" -> 8 [] ch = "9" -> 9

\* str.strip(): the text without its leading and trailing blanks.
RECURSIVE LStrip(_)
LStrip(text) ==
    IF text # <<>> /\ Head(text) = " " THEN LStrip(Tail(text)) ELSE text

RECURSIVE RStrip(_)
RStrip(text) ==
    IF text # <<>> /\ text[Len(text)] = " "
    THEN RStrip(SubSeq(text, 1, Len(text) - 1))
    ELSE text

Strip(text) == RStrip(LStrip(text))

\* str.split(":"): the parts between the colons.
RECURSIVE Split(_, _)
Split(text, part) ==
    IF text = <<>> THEN <<part>>
    ELSE IF Head(text) = ":" THEN <<part>> \o Split(Tail(text), <<>>)
    ELSE Split(Tail(text), Append(part, Head(text)))

\* Whether int(text) returns: blanks around one or more digits (ValueError
\* otherwise).
IsInt(text) ==
    /\ Strip(text) # <<>>
    /\ \A i \in 1..Len(Strip(text)) : Strip(text)[i] \in Digits

RECURSIVE Decimal(_, _)
Decimal(digits, value) ==
    IF digits = <<>> THEN value
    ELSE Decimal(Tail(digits), 10 * value + DigitValue(Head(digits)))

\* int(text)
Int_(text) == Decimal(Strip(text), 0)

\* _parse_time(time_str): the time of day in seconds, or None for an empty
\* text, fewer than two parts (IndexError), a part that is no integer or an
\* hour or minute out of range (ValueError).
_parse_time(time_str) ==
    IF time_str = <<>> \/ Strip(time_str) = <<>> THEN None
    ELSE LET parts == Split(Strip(time_str), <<>>)
         IN  IF Len(parts) < 2 THEN None
             ELSE IF ~IsInt(parts[1]) \/ ~IsInt(parts[2]) THEN None
             ELSE IF Int_(parts[1]) > 23 \/ Int_(parts[2]) > 59 THEN None
             ELSE Int_(parts[1]) * 3600 + Int_(parts[2]) * 60

\* _get_cell(row, col): col is 1-indexed; a missing cell reads as "".
_get_cell(row, col) == IF col - 1 < Len(row) THEN row[col] ELSE <<>>

\* The loop of get_schedule over the data rows.
RECURSIVE ActsOfRows(_)
ActsOfRows(data_rows) ==
    IF data_rows = <<>> THEN <<>>
    ELSE LET row == Head(data_rows)
             act_name == _get_cell(row, COL_ARTIST_NAME)
             scheduled_start == _parse_time(_get_cell(row, COL_SCHEDULED_START))
             scheduled_end == _parse_time(_get_cell(row, COL_SCHEDULED_END))
         IN  IF act_name = <<>> \/ ~Present(scheduled_start) \/ ~Present(scheduled_end)
             THEN ActsOfRows(Tail(data_rows))
             ELSE <<[act_name |-> act_name,
                     scheduled_start |-> scheduled_start,
                     scheduled_end |-> scheduled_end,
                     actual_start |-> _parse_time(_get_cell(row, COL_ACTUAL_START)),
                     actual_end |-> _parse_time(_get_cell(row, COL_ACTUAL_END))]>>
                  \o ActsOfRows(Tail(data_rows))

\* all_values[HEADER_ROW:]
DataRows(all_values) == SubSeq(all_values, HEADER_ROW + 1, Len(all_values))

\* get_schedule(): the acts of the data rows, in the order of the rows.
get_schedule(all_values) == ActsOfRows(DataRows(all_values))

\* The cell texts a row of the worksheet is filled with.
NameTexts == {<<>>, <<"A">>, <<"B">>}

StartTexts == {<<"0", "9", ":", "0", "0">>, <<"1", "0", ":", "0", "0">>,
               <<" ", "9", ":", "3", "0", " ">>}

EndTexts == {<<"1", "1", ":", "0", "0">>, <<"2", "4", ":", "0", "0">>}

ActualStartTexts == {<<>>, <<"0", "9", ":", "0", "5">>}

ActualEndTexts == {<<>>, <<"1", "1", ":", "1", "0">>}

SheetRow(name, start, end, actual_start, actual_end) ==
    <<<<>>, name, <<>>, start, end, actual_start, actual_end>>

SheetRows ==
    {SheetRow(n, s, e, a, b) : n \in NameTexts, s \in StartTexts, e \in EndTexts,
                               a \in ActualStartTexts, b \in ActualEndTexts}
    \cup {<<<<>>, <<"A">>>>}

\* The rows above the data: titles and, on row 5, the column headers.
HeaderRows == [i \in 1..HEADER_ROW |-> <<<<"#">>, <<"n", "a", "m", "e">>>>]

\* The worksheet's editor adds a row below the others.
SheetAppendRow(row) ==
    /\ Len(sheet) < HEADER_ROW + MaxRows
    /\ sheet' = Append(sheet, row)
    /\ UNCHANGED <<schedule, last_update, hubVars, slipVars, fmtVars>>

\* get_schedule() is called.
GetSchedule ==
    /\ schedule' = get_schedule(sheet)
    /\ UNCHANGED <<sheet, last_update, hubVars, slipVars, fmtVars>>

\* get_act(act_name): the first act of get_schedule() with that name, <<>>
\* for None.
get_act(all_values, act_name) ==
    LET acts == get_schedule(all_values)
        hits == {i \in 1..Len(acts) : acts[i].act_name = act_name}
    IN  IF hits = {} THEN <<>>
        ELSE <<acts[CHOOSE i \in hits : \A j \in hits : i <= j]>>

\* _find_row(act_name): the 1-indexed sheet row of the first data row whose
\* name cell is act_name, or None.
_find_row(all_values, act_name) ==
    LET hits == {r \in (HEADER_ROW + 1)..Len(all_values) :
                    _get_cell(all_values[r], COL_ARTIST_NAME) = act_name}
    IN  IF hits = {} THEN None
        ELSE CHOOSE r \in hits : \A q \in hits : r <= q

DigitChar(d) ==
    CASE d = 0 -> "0" [] d = 1 -> "1" [] d = 2 -> "2" [] d = 3 -> "3"
      [] d = 4 -> "4" [] d = 5 -> "5" [] d = 6 -> "6" [] d = 7 -> "7"
      [] d = 8 -> "8" [] d = 9 -> "9"

\* _format_time(t): t.strftime("%H:%M"), "" for None.
_format_time(t) ==
    IF t = None THEN <<>>
    ELSE LET h == t \div 3600
             m == (t % 3600) \div 60
         IN  <<DigitChar(h \div 10), DigitChar(h % 10), ":",
               DigitChar(m \div 10), DigitChar(m % 10)>>

\* sheet.update_cell(row, col, value): the cell gets the text; a row shorter
\* than col is filled up with empty cells.
update_cell(all_values, row, col, value) ==
    LET old == all_values[row]
        width == IF Len(old) < col THEN col ELSE Len(old)
    IN  [all_values EXCEPT ![row] =
            [k \in 1..width |-> IF k = col THEN value
                                ELSE IF k <= Len(old) THEN old[k] ELSE <<>>]]

\* The names of the acts get_schedule() lists.
ListedNames(all_values) ==
    {get_schedule(all_values)[i].act_name : i \in 1..Len(get_schedule(all_values))}

\* What an update_... / clear_... call leaves: the worksheet, and the record
\* of the call with its result (<<>> for None) and the cells it wrote.
Updated(all_values, op, act_name, cells) ==
    LET row_num == _find_row(all_values, act_name)
        RECURSIVE Write(_, _)
        Write(rows, todo) ==
            IF todo = <<>> THEN rows
            ELSE Write(update_cell(rows, row_num, todo[1][1], todo[1][2]),
                       Tail(todo))
        after == IF row_num = None THEN all_values ELSE Write(all_values, cells)
    IN  [all_values |-> after,
         call |-> [op |-> op, act_name |-> act_name,
                   listed |-> act_name \in ListedNames(all_values),
                   result |-> IF row_num = None THEN <<>>
                              ELSE get_act(after, act_name),
                   written |-> IF row_num = None THEN {}
                               ELSE {<<row_num, cells[k][1]>> : k \in 1..Len(cells)}]]

\* update_actual_start(act_name, actual_time)
UpdateActualStart(act_name, actual_time) ==
    LET u == Updated(sheet, "update_actual_start", act_name,
                     <<<<COL_ACTUAL_START, _format_time(actual_time)>>>>)
    IN  /\ sheet' = u.all_values
        /\ last_update' = u.call
        /\ UNCHANGED <<schedule, hubVars, slipVars, fmtVars>>

\* update_actual_end(act_name, actual_time)
UpdateActualEnd(act_name, actual_time) ==
    LET u == Updated(sheet, "update_actual_end", act_name,
                     <<<<COL_ACTUAL_END, _format_time(actual_time)>>>>)
    IN  /\ sheet' = u.all_values
        /\ last_update' = u.call
        /\ UNCHANGED <<schedule, hubVars, slipVars, fmtVars>>

\* clear_actual_times(act_name)
ClearActualTimes(act_name) ==
    LET u == Updated(sheet, "clear_actual_times", act_name,
                     <<<<COL_ACTUAL_START, <<>>>>, <<COL_ACTUAL_END, <<>>>>>>)
    IN  /\ sheet' = u.all_values
        /\ last_update' = u.call
        /\ UNCHANGED <<schedule, hubVars, slipVars, fmtVars>>

\* The act names and times of day the update calls are made with.
UpdateNames == {<<"A">>, <<"B">>}

UpdateTimes == {9 * 3600 + 5 * 60}

\* The rows of the worksheets the update calls are made on.
UpdateRows ==
    {SheetRow(n, <<"0", "9", ":", "0", "0">>, e, a, <<>>) :
        n \in NameTexts, e \in EndTexts, a \in ActualStartTexts}
    \cup {<<<<>>, <<"A">>>>}

----------------------------------------------------------------------------
(* The specifications *)

HubInit ==
    /\ accepted = {}
    /\ entries = <<>>
    /\ current_brightness = 0
    /\ task = [t \in Tasks |-> IdleTask]
    /\ last_disconnect = "none"
    /\ lifecycle = [c \in Conns |-> "new"]

SlipInit ==
    /\ slip_pc = "idle"
    /\ current_time = 0
    /\ slip = 0
    /\ n_acts = 0
    /\ last_data = <<>>
    /\ slip_before = 0
    /\ any_start = FALSE
    /\ twin = [pc |-> "idle", current_time |-> <<0, 0>>, slip |-> <<0, 0>>,
               n_acts |-> 0, no_data_changed |-> FALSE]

SheetInit ==
    /\ sheet = HeaderRows
    /\ schedule = <<>>
    /\ last_update = [op |-> "none", act_name |-> <<>>, listed |-> FALSE,
                      result |-> <<>>, written |-> {}]

FmtInit ==
    fmt = [op |-> "none", seconds |-> <<>>, text |-> <<>>, recursions |-> 0]

Init == HubInit /\ SlipInit /\ SheetInit /\ FmtInit

\* The hub: broadcasts, their sends, connects and disconnects interleaved.
Next ==
    \/ \E t \in Tasks, m \in Messages : Broadcast(t, m)
    \/ \E t \in Tasks, v \in ViewerHtmls, e \in EditorHtmls : BroadcastSchedule(t, v, e)
    \/ \E t \in Tasks, value \in BrightnessValues : BroadcastBrightness(t, value)
    \/ \E t \in Tasks : SendOk(t)
    \/ \E t \in Tasks : SendFail(t)
    \/ \E t \in Tasks : Outcome(t)
    \/ \E c \in Conns, e \in BOOLEAN : Connect(c, e)
    \/ \E c \in Conns : Disconnect(c)

Spec == Init /\ [][Next]_vars

\* The clients that stop reading: a send_text to them never completes.
HungConns == {"c1"}

\* send_text to a client that reads completes or raises.
HangSendOk(t) == task[t].conn \notin HungConns /\ SendOk(t)

HangSendFail(t) == task[t].conn \notin HungConns /\ SendFail(t)

\* The hub with a client that never reads.  The event loop resumes a
\* coroutine whose await has completed, so a send that is not hung goes on
\* and an ended call is taken by its caller.
HangNext ==
    \/ \E t \in Tasks, m \in Messages : Broadcast(t, m)
    \/ \E t \in Tasks : HangSendOk(t)
    \/ \E t \in Tasks : HangSendFail(t)
    \/ \E t \in Tasks : Outcome(t)
    \/ \E c \in Conns, e \in BOOLEAN : Connect(c, e)
    \/ \E c \in Conns : Disconnect(c)

HangSpec ==
    /\ Init
    /\ [][HangNext]_vars
    /\ WF_vars(\E t \in Tasks : HangSendOk(t) \/ HangSendFail(t))
    /\ WF_vars(\E t \in Tasks : Outcome(t))

\* calculate_slip on every sequence of up to MaxActs acts.
SlipNext ==
    \/ \E given \in {None, 0}, now \in {300} : SlipCall(given, now)
    \/ \E act \in Acts, days \in {0, 1} : SlipTake(act, days)
    \/ SlipReturn

SlipSpec == Init /\ [][SlipNext]_vars

\* Two calls of calculate_slip on the same sequence of acts.
TwinNext ==
    \/ \E given1, given2 \in GivenTimes, now1, now2 \in NowTimes :
          TwinCall(given1, given2, now1, now2)
    \/ \E act \in Acts, days1, days2 \in {0, 1} : TwinTake(act, days1, days2)
    \/ TwinReturn

TwinSpec == Init /\ [][TwinNext]_vars

\* get_schedule on every worksheet of up to MaxRows data rows.
SheetNext ==
    \/ \E row \in SheetRows : SheetAppendRow(row)
    \/ GetSchedule

SheetSpec == Init /\ [][SheetNext]_vars

\* The update calls on every worksheet of up to MaxRows data rows.
UpdateNext ==
    \/ \E row \in UpdateRows : SheetAppendRow(row)
    \/ \E n \in UpdateNames, t \in UpdateTimes : UpdateActualStart(n, t)
    \/ \E n \in UpdateNames, t \in UpdateTimes : UpdateActualEnd(n, t)
    \/ \E n \in UpdateNames : ClearActualTimes(n)

UpdateSpec == Init /\ [][UpdateNext]_vars

\* The formatters on every duration of Seconds, and on None.
FmtNext ==
    \/ \E seconds \in Seconds : FormatDuration(seconds)
    \/ \E seconds \in {<<>>} \cup {<<x>> : x \in Seconds} : FormatVariance(seconds)

FmtSpec == Init /\ [][FmtNext]_vars

----------------------------------------------------------------------------
(* The connection hub: claims *)

\* The connections a send of the call failed for, and those one reached.
FailedIn(tk) == {c \in Conns : \E i \in 1..Len(tk.sent[c]) : ~tk.sent[c][i].ok}

ReceivedIn(tk) == {c \in Conns : \E i \in 1..Len(tk.sent[c]) : tk.sent[c][i].ok}

\* The connections registered when the call began and still registered.
LiveThrough(tk) == tk.targets \cap Keys(entries)

\* json.loads of a brightness message: the event json_dumps renders as it.
BrightnessEvents == {BrightnessEvent(v) : v \in BrightnessValues}

json_loads(text) ==
    IF \E obj \in BrightnessEvents : json_dumps(obj) = text
    THEN CHOOSE obj \in BrightnessEvents : json_dumps(obj) = text
    ELSE [type |-> "text", value |-> -1]

\* C1: no call of broadcast, broadcast_schedule or broadcast_brightness ends
\* with an error propagated to its caller, whatever sends fail and whatever
\* connect or disconnect runs while the call is suspended in a send.
C1_BroadcastNeverRaises == \A t \in Tasks : task[t].pc # "raised"

\* C2: once a broadcast call in which the send to a connection failed has
\* ended, that connection is not in active_connections, and every other
\* connection registered throughout the call whose own send did not fail
\* has received its payload.
C2_FailedRemovedOthersServed ==
    \A t \in Tasks :
        (Ended(task[t]) /\ FailedIn(task[t]) # {}) =>
            /\ FailedIn(task[t]) \cap Keys(entries) = {}
            /\ \A c \in LiveThrough(task[t]) \ FailedIn(task[t]) :
                  Truthy(get_message(task[t], Lookup(entries, c)))
                      => c \in ReceivedIn(task[t])

\* C3: a call broadcast_schedule(v, e) sends every connection that is
\* registered throughout it exactly one message: e to an editor, v to a
\* viewer.  Stated for non-empty v and e, the payloads that are sent at all.
C3_EachGetsItsVersionOnce ==
    \A t \in Tasks :
        (/\ Ended(task[t])
         /\ task[t].op = "broadcast_schedule"
         /\ task[t].viewer_html # ""
         /\ task[t].editor_html # "") =>
            \A c \in LiveThrough(task[t]) :
                /\ Len(task[t].sent[c]) = 1
                /\ task[t].sent[c][1].text =
                      IF Lookup(entries, c) THEN task[t].editor_html
                      ELSE task[t].viewer_html

\* C8: broadcast_brightness(value) leaves current_brightness = value and
\* sends every connection registered throughout the call a message that
\* decodes to type "brightness" with that value.
C8_BrightnessStoredAndSent ==
    \A t \in Tasks :
        (Ended(task[t]) /\ task[t].op = "broadcast_brightness") =>
            /\ current_brightness = task[t].value
            /\ \A c \in LiveThrough(task[t]) :
                  \E i \in 1..Len(task[t].sent[c]) :
                      json_loads(task[t].sent[c][i].text)
                          = [type |-> "brightness", value |-> task[t].value]

\* C14: while a broadcast call is iterating active_connections, nothing
\* mutates the collection.
C14_NoMutationWhileIterating ==
    \A t \in Tasks : task[t].pc = "sending" => ~task[t].mutated

\* C15: a send that hangs does not stall the broadcast: every other
\* connection the call has to serve is eventually sent its payload, unless
\* it is removed or the call ends first.
C15_HungSendDoesNotStall ==
    \A t \in Tasks : \A c \in Conns \ HungConns :
        (/\ task[t].pc = "sending"
         /\ task[t].conn \in HungConns
         /\ c \in task[t].targets
         /\ c \in Keys(entries)
         /\ task[t].sent[c] = <<>>)
        ~> (\/ task[t].sent[c] # <<>>
            \/ c \notin Keys(entries)
            \/ task[t].pc # "sending")

\* A step of the broadcast call of t: it starts, or goes on after a send.
CallStep(t) ==
    /\ task[t].pc \in {"idle", "sending"}
    /\ task'[t].pc # task[t].pc \/ task'[t].sent # task[t].sent

\* C17: a broadcast call removes nothing from active_connections before its
\* iteration has ended, and then removes only connections whose send failed
\* in that call.
C17_RemovalDeferred ==
    [][\A t \in Tasks : CallStep(t) =>
          /\ task'[t].pc # "returned" => entries' = entries
          /\ Keys(entries') \subseteq Keys(entries)
          /\ Keys(entries) \ Keys(entries') \subseteq FailedIn(task'[t])]_vars

\* A call is suspended in a send after an earlier send of it failed, and the
\* connection that failed is still registered.
C17_Witness ==
    \E t \in Tasks :
        /\ task[t].pc = "sending"
        /\ task[t].disconnected # <<>>
        /\ \A i \in 1..Len(task[t].disconnected) :
               task[t].disconnected[i] \in Keys(entries)

\* C18: a connection whose selected payload is empty gets no send attempt
\* in a broadcast pass and is not removed by the pass.
C18_EmptyPayloadSkipped ==
    [][\A t \in Tasks : CallStep(t) =>
          \A c \in Keys(entries) :
              get_message(task'[t], Lookup(entries, c)) = "" =>
                  /\ task'[t].sent[c] = task[t].sent[c]
                  /\ task'[t].sent[c] = <<>>
                  /\ c \in Keys(entries')]_vars

\* A broadcast_schedule pass has returned: it served a connection, and a
\* registered connection whose payload was empty was passed over.
C18_Witness ==
    \E t \in Tasks :
        /\ task[t].pc = "returned"
        /\ task[t].op = "broadcast_schedule"
        /\ ReceivedIn(task[t]) # {}
        /\ \E c \in task[t].targets \cap Keys(entries) :
               /\ get_message(task[t], Lookup(entries, c)) = ""
               /\ task[t].sent[c] = <<>>

\* No broadcast call is in progress.
Quiescent == \A t \in Tasks : task[t].pc \in {"idle", "returned", "raised"}

\* C19: after any sequence of connect, disconnect and broadcast operations
\* a connection is in active_connections if and only if its accept
\* succeeded and neither a disconnect nor a failed send has closed it since,
\* and its flag is the one given at its connect.
C19_LiveIffAcceptedNotRemoved ==
    Quiescent =>
        /\ Keys(entries) = {c \in Conns : lifecycle[c] \in {"viewer", "editor"}}
        /\ \A c \in Keys(entries) : Lookup(entries, c) = (lifecycle[c] = "editor")

\* C9: disconnect of a connection that is not in active_connections raises
\* nothing and changes neither active_connections nor current_brightness,
\* and after any disconnect(c) a second disconnect(c) changes nothing more.
C9_DisconnectIdempotent ==
    [][\A c \in Conns :
          Disconnect(c) =>
              /\ c \notin Keys(entries) =>
                    /\ entries' = entries
                    /\ current_brightness' = current_brightness
                    /\ last_disconnect' = "absent"
              /\ last_disconnect' # "KeyError"
              /\ c \notin Keys(entries')
              /\ DictPop(entries', c) = entries'
              /\ ~DictPopRaises(entries', c)]_vars

\* A disconnect of an unregistered connection has run while another
\* connection is registered, after an earlier disconnect left a hole.
C9_Witness ==
    /\ last_disconnect = "absent"
    /\ Keys(entries) # {}
    /\ \E i \in 1..Len(entries) : entries[i] = Hole

----------------------------------------------------------------------------
(* calculate_slip: claims *)

LastAct == last_data[1].act

\* C4: calculate_slip returns an integer >= 0 for every sequence of acts.
C4_SlipNonNegative == slip >= 0

\* calculate_slip has returned 0 after a last act with data that ended
\* before its scheduled end.
C4_Witness ==
    /\ slip_pc = "returned"
    /\ last_data # <<>>
    /\ Present(LastAct.actual_end)
    /\ LastAct.actual_end < LastAct.scheduled_end
    /\ slip = 0

\* What the claim C5 gives for the act that decides the result.
Contribution(act, days) ==
    IF Present(act.actual_end)
    THEN Max0(act.actual_end - act.scheduled_end)
    ELSE Max0((act.actual_start + scheduled_duration(act))
                  - (days * Day + act.scheduled_end))

StartDelay(act) ==
    LET raw == act.actual_start - act.scheduled_start
    IN  IF 2 * raw > Day THEN raw - Day
        ELSE IF 2 * raw <= -Day THEN raw + Day
        ELSE raw

\* C6: when the last act with data is in progress and started d seconds
\* after its scheduled start, calculate_slip returns max(0, d), also when
\* midnight lies between the scheduled and the actual start.  Stated for
\* d >= 0, for the slots that end on the day they start and for a run
\* during which the date does not change.
C6_InProgressSlipIsStartDelay ==
    (/\ slip_pc = "returned"
     /\ last_data # <<>>
     /\ InProgress(LastAct)
     /\ last_data[1].days = 0
     /\ LastAct.scheduled_start <= LastAct.scheduled_end
     /\ StartDelay(LastAct) >= 0) =>
        slip = Max0(StartDelay(LastAct))

\* C7 as stated: calculate_slip returns 0 when no act has actual_start.
C7_NoStartMeansZero == (slip_pc = "returned" /\ ~any_start) => slip = 0

\* C7 as amended: calculate_slip returns 0 for the empty sequence and when
\* no act has actual_start or actual_end.
C7_NoDataMeansZero == (slip_pc = "returned" /\ last_data = <<>>) => slip = 0

\* calculate_slip has returned from a sequence of acts none of which has
\* started or ended.
C7_Witness ==
    /\ slip_pc = "returned"
    /\ n_acts >= 1
    /\ last_data = <<>>
    /\ slip = 0

\* C20: two calls of calculate_slip on the same acts return the same value
\* whatever current_time each is given and whenever each is made, and an act
\* with neither actual_start nor actual_end changes the slip of neither.
C20_ResultDependsOnActsOnly ==
    /\ ~twin.no_data_changed
    /\ twin.pc = "returned" => twin.slip[1] = twin.slip[2]

\* The latest act with data is complete and ended before its scheduled end.
EndedEarly ==
    /\ last_data # <<>>
    /\ Present(LastAct.actual_end)
    /\ OrZero(end_variance(LastAct)) < 0

\* C16 as stated: a completed act that finished early leaves the slip the
\* preceding acts left.
C16_EarlyFinishKeepsSlip == EndedEarly => slip = slip_before

\* C16 as amended: a completed act that finished early sets the slip to 0,
\* whatever the preceding acts left.
C16_EarlyFinishResetsSlip == EndedEarly => slip = 0

\* calculate_slip has returned 0 after an early finish that followed acts
\* which had left a positive slip.
C16_Witness ==
    /\ slip_pc = "returned"
    /\ EndedEarly
    /\ slip_before > 0
    /\ slip = 0

----------------------------------------------------------------------------
(* get_schedule: claims *)

\* C11: update_actual_start, update_actual_end and clear_actual_times return
\* None exactly when the act name is not among the acts get_schedule lists,
\* and when they return None no cell of the worksheet has been written.
C11_NotFoundWritesNothing ==
    last_update.op # "none" =>
        /\ (last_update.result = <<>>) <=> ~last_update.listed
        /\ last_update.result = <<>> => last_update.written = {}

\* C10: the acts get_schedule returns are sorted by ascending
\* scheduled_start, whatever rows the worksheet holds in whatever order.
C10_ScheduleSorted ==
    \A i, j \in 1..Len(schedule) :
        i < j => schedule[i].scheduled_start <= schedule[j].scheduled_start

----------------------------------------------------------------------------
(* format_duration and format_variance: claims *)

\* What C12 gives for s >= 0.
ExpectedDuration(s) ==
    LET h == s \div 3600
        m == (s % 3600) \div 60
        sec == s % 60
    IN  IF h > 0 THEN Str(h) \o <<"h", " ">> \o Str(m) \o <<"m">>
        ELSE IF m > 0 THEN Str(m) \o <<"m">>
        ELSE Str(sec) \o <<"s">>

\* C12: format_duration(s) is "{h}h {m}m" when h > 0, else "{m}m" when
\* m > 0, else "{sec}s" for s >= 0 (0 gives "0s", 125 gives "2m", 3725 gives
\* "1h 2m"); for s < 0 it is "-" followed by format_duration(-s), with one
\* recursive call.
C12_FormatDuration ==
    fmt.op = "format_duration" =>
        LET s == fmt.seconds[1]
        IN  /\ s >= 0 => fmt.text = ExpectedDuration(s) /\ fmt.recursions = 0
            /\ s < 0 => /\ fmt.text = <<"-">> \o ExpectedDuration(-s)
                        /\ fmt.text = <<"-">> \o format_duration(-s)
                        /\ fmt.recursions = 1
            /\ s = 0 => fmt.text = <<"0", "s">>
            /\ s = 125 => fmt.text = <<"2", "m">>
            /\ s = 3725 => fmt.text = <<"1", "h", " ", "2", "m">>
            /\ s = -40 => fmt.text = <<"-", "4", "0", "s">>

\* format_duration(-3725) has returned "-1h 2m".
C12_Witness ==
    /\ fmt.op = "format_duration"
    /\ fmt.seconds = <<-3725>>
    /\ fmt.text = <<"-", "1", "h", " ", "2", "m">>
    /\ fmt.recursions = 1

\* C13: format_variance gives "" for None, "on time" for 0, "+" followed by
\* format_duration(s) for s > 0 and format_duration(s) for s < 0; the result
\* begins with "+" exactly for s > 0 and with "-" exactly for s < 0.
C13_FormatVariance ==
    fmt.op = "format_variance" =>
        LET begins(ch) == fmt.text # <<>> /\ fmt.text[1] = ch
        IN  /\ fmt.seconds = <<>> => fmt.text = <<>>
            /\ fmt.seconds = <<0>> => fmt.text = <<"o", "n", " ", "t", "i", "m", "e">>
            /\ fmt.seconds = <<45>> => fmt.text = <<"+", "4", "5", "s">>
            /\ (fmt.seconds # <<>> /\ fmt.seconds[1] > 0) =>
                   fmt.text = <<"+">> \o format_duration(fmt.seconds[1])
            /\ (fmt.seconds # <<>> /\ fmt.seconds[1] < 0) =>
                   fmt.text = format_duration(fmt.seconds[1])
            /\ begins("+") <=> (fmt.seconds # <<>> /\ fmt.seconds[1] > 0)
            /\ begins("-") <=> (fmt.seconds # <<>> /\ fmt.seconds[1] < 0)

\* format_variance(3725) has returned "+1h 2m".
C13_Witness ==
    /\ fmt.op = "format_variance"
    /\ fmt.seconds = <<3725>>
    /\ fmt.text = <<"+", "1", "h", " ", "2", "m">>

====
